---- MODULE Spec2Model ----
(***************************************************************************)
(* A model of meta-fetcher (src/src/lib.rs): fetch_metadata(url) checks    *)
(* the site's robots.txt, then Metadata::from_url(url) fetches the page    *)
(* and extracts title, description and image (Open Graph first, standard   *)
(* HTML second).                                                           *)
(*                                                                         *)
(* Option<T> is a sequence of length at most one: None is <<>>, Some(v) is *)
(* <<v>>.  A URL is a sequence of tokens <<scheme, host, seg1, ...>>; a    *)
(* page body is a sequence of markup tokens in document order; a           *)
(* robots.txt is a sequence of lines.                                      *)
(***************************************************************************)
EXTENDS Naturals, Sequences, FiniteSets

VARIABLES pc, entry, url, requests, policy, robot_agent, decision, body, result

vars == <<pc, entry, url, requests, policy, robot_agent, decision, body, result>>

\* ------------------------------------------------------------------ bounds

\* Longest page body (markup tokens) the remote host answers with.
MaxDocLen == 3

\* Longest robots.txt (lines) the remote host answers with.
MaxRobotsLines == 3

\* ---------------------------------------------------------------- Option<T>

None == <<>>

Some(v) == <<v>>

\* Option::or_else
OrElse(a, b) == IF a # None THEN a ELSE b

Min(S) == CHOOSE m \in S : \A k \in S : m <= k

\* --------------------------------------------------------------- constants

\* const USER_AGENT: &str = "MetaFetcher/1.0";
USER_AGENT == "MetaFetcher/1.0"

\* What ureq sends when no User-Agent header is set on the request.
UreqDefaultAgent == "ureq"

\* -------------------------------------------------------------------- URLs

EmptyUrl == <<>>

NoSchemeUrl == <<"hi there">>

Urls ==
    { EmptyUrl,
      NoSchemeUrl,
      <<"http", "a.com">>,
      <<"http", "a.com", "private", "x">>,
      <<"https", "a.com", "private">>,
      <<"https", "a.com", "pub">> }

\* url::Url::parse as both get_robots_url and ureq use it: an absolute URL
\* with an http(s) scheme and a host.
UrlParses(u) ==
    /\ Len(u) >= 2
    /\ u[1] \in {"http", "https"}
    /\ u[2] # ""

UrlPath(u) == SubSeq(u, 3, Len(u))

\* A faulty variant: the URL is not parsed, the robots URL is built for anything.
GetRobotsUrlLenient(u) ==
    Some(<<(IF Len(u) >= 1 THEN u[1] ELSE "http"),
           (IF Len(u) >= 2 THEN u[2] ELSE ""), "robots.txt">>)

\* texting_robots::get_robots_url(url): Err (None here) for a URL that does
\* not parse, else scheme + host + /robots.txt.
get_robots_url(u) ==
    IF UrlParses(u) THEN Some(<<u[1], u[2], "robots.txt">>) ELSE None

\* ---------------------------------------------------------------- requests

\* ureq::get(&robots_url).set("User-Agent", USER_AGENT)
RobotsRequest(target) ==
    [kind |-> "robots", target |-> target, agent |-> USER_AGENT]

\* A faulty variant: the page request is built without the User-Agent header.
PageRequestNoHeader(target) ==
    [kind |-> "page", target |-> target, agent |-> UreqDefaultAgent]

\* ureq::get(url).set("User-Agent", USER_AGENT)
PageRequest(target) ==
    [kind |-> "page", target |-> target, agent |-> USER_AGENT]

PageRequested == \E i \in DOMAIN requests : requests[i].kind = "page"

RobotsRequested == \E i \in DOMAIN requests : requests[i].kind = "robots"

\* -------------------------------------------------------------- robots.txt

\* A pattern the regex builder of texting_robots rejects.
BadPattern == <<"*{oversize}">>

UA(a) == [field |-> "User-agent", value |-> <<a>>]

Disallow(p) == [field |-> "Disallow", value |-> p]

Allow(p) == [field |-> "Allow", value |-> p]

RobotsLines ==
    { UA("*"), UA(USER_AGENT),
      Disallow(<<>>), Disallow(<<"private">>), Disallow(BadPattern),
      Allow(<<"private", "x">>) }

SeqsUpTo(S, n) == UNION { [1..k -> S] : k \in 0..n }

RobotsTexts == SeqsUpTo(RobotsLines, MaxRobotsLines)

\* The agents of the group that line i of txt belongs to: the run of
\* User-agent lines that ends at the last User-agent line before i.
GroupAgents(txt, i) ==
    LET before == { j \in 1..(i - 1) : txt[j].field = "User-agent" }
    IN  IF before = {} THEN {}
        ELSE LET last == CHOOSE j \in before : \A k \in before : k <= j
                 run == { j \in before :
                            \A k \in j..last : txt[k].field = "User-agent" }
             IN  { txt[j].value[1] : j \in run }

RulesFor(txt, a) ==
    { txt[i] : i \in { j \in DOMAIN txt :
                         /\ txt[j].field # "User-agent"
                         /\ a \in GroupAgents(txt, j) } }

\* Robot::new(agent, txt): the rules of the group naming the agent, else of
\* the wildcard group; Err (None here) when a pattern cannot be compiled.
RobotNew(agent, txt) ==
    LET named == \E i \in DOMAIN txt :
                    txt[i].field = "User-agent" /\ txt[i].value = <<agent>>
        rules == IF named THEN RulesFor(txt, agent) ELSE RulesFor(txt, "*")
    IN  IF \E r \in rules : r.value = BadPattern
        THEN None
        ELSE Some([agent |-> agent, rules |-> rules])

PatternMatches(p, path) ==
    Len(p) <= Len(path) /\ SubSeq(path, 1, Len(p)) = p

\* Robot::allowed(url): the longest matching pattern wins, Allow wins a tie,
\* and a URL no rule matches is allowed.
RobotAllowed(robot, u) ==
    LET path == UrlPath(u)
        hits == { r \in robot.rules : PatternMatches(r.value, path) }
    IN  \/ hits = {}
        \/ \E a \in hits :
              /\ a.field = "Allow"
              /\ \A r \in hits : Len(r.value) <= Len(a.value)

\* The agent robots_allowed hands to Robot::new (line 102).
PolicyAgent == USER_AGENT

\* A faulty variant: a policy that cannot be parsed is treated like one that could
\* not be retrieved.
RobotsVerdictPermissive(u, txt) ==
    LET robot == RobotNew(PolicyAgent, txt)
    IN  IF robot = None THEN "Ok(true)"
        ELSE IF RobotAllowed(robot[1], u) THEN "Ok(true)" ELSE "Ok(false)"

\* robots_allowed, the Ok(response) arm once the body has been read:
\*   let robots = Robot::new(USER_AGENT, robots_txt.as_bytes())?;
\*   Ok(robots.allowed(url))
RobotsVerdict(u, txt) ==
    LET robot == RobotNew(PolicyAgent, txt)
    IN  IF robot = None THEN "Err(parse)"
        ELSE IF RobotAllowed(robot[1], u) THEN "Ok(true)" ELSE "Ok(false)"

\* What the retrieved policy says of the URL for the fixed agent.
PolicyOf(u, txt) ==
    LET robot == RobotNew(PolicyAgent, txt)
    IN  IF robot = None THEN "unparseable"
        ELSE IF RobotAllowed(robot[1], u) THEN "permits" ELSE "denies"

\* ------------------------------------------------------------------ markup

\* A markup token: an element with its tag name, the attributes the
\* extraction reads (each an Option) and its text content; or a stray piece
\* of markup (tag "#stray") that the parser drops.
Node(tag, property, name, content, context, text) ==
    [tag |-> tag, property |-> property, name |-> name,
     content |-> content, context |-> context, text |-> text]

Meta(property, name, content, context) ==
    Node("meta", property, name, content, context, "")

OgTitle == Meta(Some("og:title"), None, Some("OT"), None)

OgTitleNoContent == Meta(Some("og:title"), None, None, None)

OgTitleEmpty == Meta(Some("og:title"), None, Some(""), None)

OgDescription == Meta(Some("og:description"), None, Some("OD"), None)

OgDescriptionContext == Meta(Some("og:description"), None, None, Some("CX"))

OgImage == Meta(Some("og:image"), None, Some("OI"), None)

MetaDescription == Meta(None, Some("description"), Some("MD"), None)

MetaDescription2 == Meta(None, Some("description"), Some("MD2"), None)

Title == Node("title", None, None, None, None, "T")

Title2 == Node("title", None, None, None, None, "T2")

\* <input name="description">: a form field, not a meta tag.
InputDescription == Node("input", None, Some("description"), None, None, "")

\* <div name="description" content="ZD">: not a meta tag either.
DivDescription ==
    Node("div", None, Some("description"), Some("ZD"), None, "")

\* Markup the parser cannot make an element of (a stray end tag).
Stray == Node("#stray", None, None, None, None, "")

Tokens ==
    { OgTitle, OgTitleNoContent, OgTitleEmpty, OgDescription,
      OgDescriptionContext, OgImage, MetaDescription, MetaDescription2,
      Title, Title2, InputDescription, DivDescription, Stray }

Sites == SeqsUpTo(Tokens, MaxDocLen)

IsElement(t) == t.tag # "#stray"

\* Document::from(site.as_str()): the tolerant parser keeps the elements in
\* document order and drops what it cannot parse; it never fails.
DocumentFrom(site) == SelectSeq(site, IsElement)

\* document.find(Attr(attr, value)).next()
FindAttr(document, attr, value) ==
    LET hits == { i \in DOMAIN document : document[i][attr] = Some(value) }
    IN  IF hits = {} THEN None ELSE Some(document[Min(hits)])

\* document.find(Name(tag)).next()
FindName(document, tag) ==
    LET hits == { i \in DOMAIN document : document[i].tag = tag }
    IN  IF hits = {} THEN None ELSE Some(document[Min(hits)])

\* .and_then(|n| n.attr(attr)).map(|t| t.to_string())
AttrOf(node, attr) == IF node = None THEN None ELSE node[1][attr]

\* .map(|t| t.text())
TextOf(node) == IF node = None THEN None ELSE Some(node[1].text)

\* lines 63-68
ExtractTitle(document) ==
    OrElse(AttrOf(FindAttr(document, "property", "og:title"), "content"),
           TextOf(FindName(document, "title")))

\* lines 69-80: the Open Graph description is read from "context".
ExtractDescription(document) ==
    OrElse(AttrOf(FindAttr(document, "property", "og:description"), "context"),
           AttrOf(FindAttr(document, "name", "description"), "content"))

\* lines 81-85
ExtractImage(document) ==
    AttrOf(FindAttr(document, "property", "og:image"), "content")

\* Ok(Self { title, description, image })
Extract(document) ==
    [title |-> ExtractTitle(document),
     description |-> ExtractDescription(document),
     image |-> ExtractImage(document)]

NoMetadata == [title |-> None, description |-> None, image |-> None]

\* ----------------------------------------------------------------- results

Pending == [kind |-> "pending", err |-> "", meta |-> NoMetadata]

Ok(m) == [kind |-> "Ok", err |-> "", meta |-> m]

Err(e) == [kind |-> "Err", err |-> e, meta |-> NoMetadata]

\* ------------------------------------------------------------------ actions

Init ==
    /\ pc = "idle"
    /\ entry = "none"
    /\ url = EmptyUrl
    /\ requests = <<>>
    /\ policy = "none"
    /\ robot_agent = None
    /\ decision = "unresolved"
    /\ body = <<>>
    /\ result = Pending

\* The error fetch_metadata returns for a robots_allowed result that is not
\* Ok(true): `?` passes an Err on, Ok(false) becomes the "Not allowed to
\* crawl" error.
GateError(d) ==
    CASE d = "Ok(false)" -> "RobotsDisallowed"
      [] d = "Err(url)" -> "InvalidUrl"
      [] d = "Err(body)" -> "RobotsBodyRead"
      [] d = "Err(parse)" -> "RobotsParse"
      [] OTHER -> "none"

\* A faulty variant: the page is fetched whenever robots_allowed returned Ok.
ProceedsOnAnyOk(d) == d \in {"Ok(true)", "Ok(false)"}

\* if robots_allowed(url)? { Metadata::from_url(url) } else { Err(..) }
Proceeds(d) == d = "Ok(true)"

\* Metadata::from_url up to its blocking call: ureq parses the URL and, if
\* it is one, sends the page request.
StartPage(u) ==
    IF UrlParses(u)
    THEN /\ requests' = Append(requests, PageRequest(u))
         /\ pc' = "page_connect"
         /\ UNCHANGED result
    ELSE /\ result' = Err("InvalidUrl")
         /\ pc' = "done"
         /\ UNCHANGED requests

\* robots_allowed has returned d: the rest of fetch_metadata up to its next
\* blocking call.
Resume(d) ==
    /\ decision' = d
    /\ IF Proceeds(d)
       THEN StartPage(url)
       ELSE /\ result' = Err(GateError(d))
            /\ pc' = "done"
            /\ UNCHANGED requests

\* fetch_metadata(u) is called: get_robots_url(u)?, then the robots request.
FetchMetadata ==
    /\ pc = "idle"
    /\ \E u \in Urls :
          /\ entry' = "fetch_metadata"
          /\ url' = u
          /\ IF get_robots_url(u) = None
             THEN /\ decision' = "Err(url)"
                  /\ result' = Err(GateError("Err(url)"))
                  /\ pc' = "done"
                  /\ UNCHANGED <<requests, policy>>
             ELSE /\ requests' =
                        Append(requests, RobotsRequest(get_robots_url(u)[1]))
                  /\ policy' = "pending"
                  /\ pc' = "robots_connect"
                  /\ UNCHANGED <<decision, result>>
    /\ UNCHANGED <<robot_agent, body>>

\* Metadata::from_url(u) is called directly: no robots check.
FromUrl ==
    /\ pc = "idle"
    /\ \E u \in Urls :
          /\ entry' = "from_url"
          /\ url' = u
          /\ StartPage(u)
    /\ UNCHANGED <<policy, robot_agent, decision, body>>

\* The robots request's connection: it fails (refused, or the connect
\* timeout) and call() returns Err, or it is made.
RobotsConnect ==
    /\ pc = "robots_connect"
    /\ \/ /\ policy' = "connect_failed"
          /\ Resume("Ok(true)")
       \/ /\ pc' = "robots_response"
          /\ UNCHANGED <<policy, decision, requests, result>>
    /\ UNCHANGED <<entry, url, robot_agent, body>>

\* The host answers the robots request: call() returns Ok(response) for a
\* success status, Err for any other status and for a transport error.
RobotsResponse ==
    /\ pc = "robots_response"
    /\ \/ /\ pc' = "robots_body"
          /\ UNCHANGED <<policy, decision, requests, result>>
       \/ /\ policy' = "status_error"
          /\ Resume("Ok(true)")
       \/ /\ policy' = "transport_error"
          /\ Resume("Ok(true)")
    /\ UNCHANGED <<entry, url, robot_agent, body>>

\* response.into_string()? and the rest of robots_allowed.
RobotsBody ==
    /\ pc = "robots_body"
    /\ \/ /\ policy' = "body_failed"
          /\ Resume("Err(body)")
          /\ UNCHANGED robot_agent
       \/ \E txt \in RobotsTexts :
             /\ policy' = PolicyOf(url, txt)
             /\ robot_agent' = Some(PolicyAgent)
             /\ Resume(RobotsVerdict(url, txt))
    /\ UNCHANGED <<entry, url, body>>

\* The page request's connection.
PageConnect ==
    /\ pc = "page_connect"
    /\ \/ /\ result' = Err("PageTransport")
          /\ pc' = "done"
       \/ /\ pc' = "page_response"
          /\ UNCHANGED result
    /\ UNCHANGED <<entry, url, requests, policy, robot_agent, decision, body>>

\* The host answers the page request: .call()?
PageResponse ==
    /\ pc = "page_response"
    /\ \/ /\ pc' = "page_body"
          /\ UNCHANGED result
       \/ /\ result' = Err("PageStatus")
          /\ pc' = "done"
       \/ /\ result' = Err("PageTransport")
          /\ pc' = "done"
    /\ UNCHANGED <<entry, url, requests, policy, robot_agent, decision, body>>

\* .into_string()? and the extraction (lines 60-91).
PageBody ==
    /\ pc = "page_body"
    /\ \/ /\ result' = Err("PageBodyRead")
          /\ UNCHANGED body
       \/ \E site \in Sites :
             /\ body' = site
             /\ result' = Ok(Extract(DocumentFrom(site)))
    /\ pc' = "done"
    /\ UNCHANGED <<entry, url, requests, policy, robot_agent, decision>>

Next ==
    \/ FetchMetadata
    \/ FromUrl
    \/ RobotsConnect
    \/ RobotsResponse
    \/ RobotsBody
    \/ PageConnect
    \/ PageResponse
    \/ PageBody

Spec == Init /\ [][Next]_vars

\* ureq's default agent has a connect timeout and no read timeout: a
\* connection attempt always ends, a response or a body may never come.
FairSpec == Spec /\ WF_vars(RobotsConnect) /\ WF_vars(PageConnect)

\* ------------------------------------------------------------------- claims

Document == DocumentFrom(body)

HasOgp(p) == FindAttr(Document, "property", p) # None

HasAnyOgp == HasOgp("og:title") \/ HasOgp("og:description") \/ HasOgp("og:image")

\* The first <meta name="description"> element of the document, if any.
FirstMetaDescription ==
    LET hits == { i \in DOMAIN Document :
                    /\ Document[i].tag = "meta"
                    /\ Document[i].name = Some("description") }
    IN  IF hits = {} THEN None ELSE Some(Document[Min(hits)])

Extracted == pc = "done" /\ result.kind = "Ok"

RetrievalFailures ==
    {"connect_failed", "status_error", "transport_error", "body_failed"}

\* C1: in fetch_metadata the page request is issued only once the robots
\* decision is resolved and is "allowed", after the robots request; when the
\* retrieved policy denies the agent for the URL, the call ends with the
\* RobotsDisallowed error and no page request is ever issued.
C1_PageOnlyWhenAllowed ==
    entry = "fetch_metadata" =>
        /\ PageRequested =>
              /\ decision = "Ok(true)"
              /\ policy \notin {"none", "pending", "denies", "unparseable"}
              /\ Len(requests) = 2
              /\ requests[1].kind = "robots"
              /\ requests[2] = PageRequest(url)
        /\ policy = "denies" =>
              /\ pc = "done"
              /\ decision = "Ok(false)"
              /\ result = Err("RobotsDisallowed")
              /\ ~PageRequested

C1_Witness ==
    /\ entry = "fetch_metadata"
    /\ pc = "done"
    /\ policy = "denies"
    /\ url = <<"https", "a.com", "private">>

\* C2: whenever the policy document cannot be retrieved, for any reason,
\* fetch_metadata treats the URL as allowed and goes on to request the page;
\* a retrieval failure never is the error fetch_metadata returns.
C2_RetrievalFailureIsAllowed ==
    (entry = "fetch_metadata" /\ policy \in RetrievalFailures) =>
        /\ decision = "Ok(true)"
        /\ PageRequested
        /\ result.err # "RobotsBodyRead"

\* C3: for a malformed URL (the empty string, a string with no scheme and
\* host) fetch_metadata returns an error and no request, policy or page, is
\* issued.
C3_MalformedUrlFailsFirst ==
    (entry = "fetch_metadata" /\ url \in {EmptyUrl, NoSchemeUrl}) =>
        /\ pc = "done"
        /\ result.kind = "Err"
        /\ requests = <<>>

C3_Witness ==
    /\ entry = "fetch_metadata"
    /\ url = NoSchemeUrl
    /\ pc = "done"
    /\ result.kind = "Err"

\* C4: for title and for description, when a tag with the Open Graph
\* property is anywhere in the document the field is what that tag's content
\* attribute gives; the standard tag is not consulted.
C4_OgpTakesPrecedence ==
    Extracted =>
        /\ HasOgp("og:title") =>
              result.meta.title =
                 AttrOf(FindAttr(Document, "property", "og:title"), "content")
        /\ HasOgp("og:description") =>
              result.meta.description =
                 AttrOf(FindAttr(Document, "property", "og:description"),
                        "content")

\* C5: for a document with og:title, og:description and og:image tags, each
\* carrying its value in its content attribute, the extracted title,
\* description and image are exactly those three values.
C5_OgpRoundTrip ==
    LET t == AttrOf(FindAttr(Document, "property", "og:title"), "content")
        d == AttrOf(FindAttr(Document, "property", "og:description"), "content")
        i == AttrOf(FindAttr(Document, "property", "og:image"), "content")
    IN  (Extracted /\ t # None /\ d # None /\ i # None) =>
            result.meta = [title |-> t, description |-> d, image |-> i]

\* C6: for a document with no Open Graph tag, a <title> and a
\* <meta name="description">, the title is the text of the first <title>, the
\* description the content attribute of the first meta description tag and
\* the image absent; the image comes from an og:image tag or from nothing.
C6_StandardFallback ==
    Extracted =>
        /\ (/\ ~HasAnyOgp
            /\ FindName(Document, "title") # None
            /\ FirstMetaDescription # None) =>
              /\ result.meta.title = TextOf(FindName(Document, "title"))
              /\ result.meta.description =
                    AttrOf(FirstMetaDescription, "content")
              /\ result.meta.image = None
        /\ result.meta.image # None => HasOgp("og:image")

\* C7: once the page body is read the call returns a Metadata, never an
\* error; a field whose Open Graph tag and standard tag are both missing
\* from the document is absent, and an empty document gives three absent
\* fields.
C7_ExtractionTotal ==
    (pc = "done" /\ PageRequested
        /\ result.err \notin {"PageTransport", "PageStatus", "PageBodyRead"}) =>
        /\ result.kind = "Ok"
        /\ (~HasOgp("og:title") /\ FindName(Document, "title") = None) =>
              result.meta.title = None
        /\ (~HasOgp("og:description") /\ FirstMetaDescription = None) =>
              result.meta.description = None
        /\ ~HasOgp("og:image") => result.meta.image = None
        /\ Document = <<>> => result.meta = NoMetadata

\* C8: every request issued, policy or page, by fetch_metadata or by
\* Metadata::from_url, carries USER_AGENT as its agent, and the policy is
\* evaluated for that same agent.
C8_OneAgent ==
    /\ \A i \in DOMAIN requests : requests[i].agent = USER_AGENT
    /\ robot_agent \in {None, Some(USER_AGENT)}
    /\ policy \in {"permits", "denies", "unparseable"} =>
          robot_agent = Some(requests[1].agent)

C8_Witness ==
    /\ entry = "fetch_metadata"
    /\ pc = "done"
    /\ policy = "permits"
    /\ Len(requests) = 2
    /\ result.kind = "Ok"

\* C9: a policy document that was retrieved and cannot be parsed makes
\* fetch_metadata return an error, and no page request is issued.
C9_ParseFailureIsAnError ==
    policy = "unparseable" =>
        /\ pc = "done"
        /\ decision = "Err(parse)"
        /\ result = Err("RobotsParse")
        /\ ~PageRequested

C9_Witness ==
    /\ entry = "fetch_metadata"
    /\ policy = "unparseable"
    /\ pc = "done"

\* C10: every call of fetch_metadata or Metadata::from_url eventually
\* returns, even when the remote host never answers.
C10_EventuallyReturns == (pc # "idle") ~> (pc = "done")

====
